---------------------------- MODULE Spec2Model ----------------------------
(***************************************************************************)
(* A model of trackHub_generator.py: the directory walk that builds the   *)
(* hub (get_directory_structure, get_container_config, get_tracks_config, *)
(* get_bigwig_color, update_config_from_file) and the write pass          *)
(* (write_hub) that emits trackDb.txt and the symlinks of the output      *)
(* directory.                                                              *)
(*                                                                         *)
(* Names are TLA+ strings; Chars spells each of them out so that the      *)
(* regular expressions of the script are evaluated character by           *)
(* character.  An attribute map (a Python dict) is a function from keys   *)
(* to values; None is the string "None", the integer priority 1 the       *)
(* string "1", and a path (bigDataUrl, a symlink target) the sequence of  *)
(* its components.  Python dicts are taken in insertion order.            *)
(***************************************************************************)
EXTENDS Integers, Sequences, FiniteSets, TLC

VARIABLES
  tree,          \* the input directory tree: path -> [files, dirs]
  useYaml,       \* whether the *.yaml override documents are present
  startIndex,    \* args.startIndex
  trackCounter,  \* the global trackCounter
  pc,            \* "build", "write", "done", "fatal" or "crash"
  exitMsg,       \* the message of sys.exit, "" while there is none
  run,           \* 1 for the first run of main, 2 for the run repeated
  todo,          \* os.walk: the directories still to be yielded, in order
  hub,           \* the hub built so far: path -> [containers, tracks]
  built,         \* per directory, config['tracks'] as it is at line 227
  wstack,        \* write_hub: the containers and tracks still to be written
  outText,       \* trackDb.txt: the blocks written, in order
  links,         \* the symlinks of the output directory: name -> target
  prevText,      \* trackDb.txt as it was when the current run started
  prevLinks,     \* the symlinks as they were when the current run started
  call,          \* a call of get_bigwig_color on its own: its arguments
  color          \* what that call returned, "" before it returns

\* the state of a run of main, and that of a call of get_bigwig_color alone
mainVars == << tree, useYaml, startIndex, trackCounter, pc, exitMsg, run, todo,
               hub, built, wstack, outText, links, prevText, prevLinks >>
callVars == << call, color >>
vars == << mainVars, callVars >>

-----------------------------------------------------------------------------
(* Strings and the regular expressions of the script *)

\* the strings Chars spells
Spelled ==
  {"hub", "WGBS.composite", "inner.composite", "mixed.Composite",
   "rna.MULTIWIG", "bed.multiwig", "marks.super", "K9.composite",
   "deep.super", "low.composite", "plain", "sub", "input.composite",
   "empty.composite", "a.bw", "b.bw", "c.bw", "male_H3K9me3.bigwig",
   "peaks.bb", "more.bigBed", "snRNA_fwd.BW", "H3K27me3.bw",
   "sample.H3K4me3.bw", "notes.txt", "cfg.yaml", "top.yaml",
   "container_config.used", "ghost.bw", "input", "H3K4me1", "H3K4me2",
   "H3K27ac", "H3K4me3", "H3K36me3", "H3K27me3", "H3K9me3", "H3K9ac",
   "CTCF", "WGBS", "methyl", "RNA", "fwd", "rev", "RPKM", "DNase", "Hp1a",
   "H1", "H3K9me2", "male", "snRNA", ".multiwig", ".composite", ".super",
   ".bw", ".bigwig", ".bb", ".bigbed", ".yaml"}

Chars(s) ==
  CASE s = "hub" -> <<"h", "u", "b">>
    [] s = "WGBS.composite" -> <<"W", "G", "B", "S", ".", "c", "o", "m", "p", "o", "s", "i", "t", "e">>
    [] s = "inner.composite" -> <<"i", "n", "n", "e", "r", ".", "c", "o", "m", "p", "o", "s", "i", "t", "e">>
    [] s = "mixed.Composite" -> <<"m", "i", "x", "e", "d", ".", "C", "o", "m", "p", "o", "s", "i", "t", "e">>
    [] s = "rna.MULTIWIG" -> <<"r", "n", "a", ".", "M", "U", "L", "T", "I", "W", "I", "G">>
    [] s = "bed.multiwig" -> <<"b", "e", "d", ".", "m", "u", "l", "t", "i", "w", "i", "g">>
    [] s = "marks.super" -> <<"m", "a", "r", "k", "s", ".", "s", "u", "p", "e", "r">>
    [] s = "K9.composite" -> <<"K", "9", ".", "c", "o", "m", "p", "o", "s", "i", "t", "e">>
    [] s = "deep.super" -> <<"d", "e", "e", "p", ".", "s", "u", "p", "e", "r">>
    [] s = "low.composite" -> <<"l", "o", "w", ".", "c", "o", "m", "p", "o", "s", "i", "t", "e">>
    [] s = "plain" -> <<"p", "l", "a", "i", "n">>
    [] s = "sub" -> <<"s", "u", "b">>
    [] s = "input.composite" -> <<"i", "n", "p", "u", "t", ".", "c", "o", "m", "p", "o", "s", "i", "t", "e">>
    [] s = "empty.composite" -> <<"e", "m", "p", "t", "y", ".", "c", "o", "m", "p", "o", "s", "i", "t", "e">>
    [] s = "a.bw" -> <<"a", ".", "b", "w">>
    [] s = "b.bw" -> <<"b", ".", "b", "w">>
    [] s = "c.bw" -> <<"c", ".", "b", "w">>
    [] s = "male_H3K9me3.bigwig" -> <<"m", "a", "l", "e", "_", "H", "3", "K", "9", "m", "e", "3", ".", "b", "i", "g", "w", "i", "g">>
    [] s = "peaks.bb" -> <<"p", "e", "a", "k", "s", ".", "b", "b">>
    [] s = "more.bigBed" -> <<"m", "o", "r", "e", ".", "b", "i", "g", "B", "e", "d">>
    [] s = "snRNA_fwd.BW" -> <<"s", "n", "R", "N", "A", "_", "f", "w", "d", ".", "B", "W">>
    [] s = "H3K27me3.bw" -> <<"H", "3", "K", "2", "7", "m", "e", "3", ".", "b", "w">>
    [] s = "sample.H3K4me3.bw" -> <<"s", "a", "m", "p", "l", "e", ".", "H", "3", "K", "4", "m", "e", "3", ".", "b", "w">>
    [] s = "notes.txt" -> <<"n", "o", "t", "e", "s", ".", "t", "x", "t">>
    [] s = "cfg.yaml" -> <<"c", "f", "g", ".", "y", "a", "m", "l">>
    [] s = "top.yaml" -> <<"t", "o", "p", ".", "y", "a", "m", "l">>
    [] s = "container_config.used" -> <<"c", "o", "n", "t", "a", "i", "n", "e", "r", "_", "c", "o", "n", "f", "i", "g", ".", "u", "s", "e", "d">>
    [] s = "ghost.bw" -> <<"g", "h", "o", "s", "t", ".", "b", "w">>
    [] s = "input" -> <<"i", "n", "p", "u", "t">>
    [] s = "H3K4me1" -> <<"H", "3", "K", "4", "m", "e", "1">>
    [] s = "H3K4me2" -> <<"H", "3", "K", "4", "m", "e", "2">>
    [] s = "H3K27ac" -> <<"H", "3", "K", "2", "7", "a", "c">>
    [] s = "H3K4me3" -> <<"H", "3", "K", "4", "m", "e", "3">>
    [] s = "H3K36me3" -> <<"H", "3", "K", "3", "6", "m", "e", "3">>
    [] s = "H3K27me3" -> <<"H", "3", "K", "2", "7", "m", "e", "3">>
    [] s = "H3K9me3" -> <<"H", "3", "K", "9", "m", "e", "3">>
    [] s = "H3K9ac" -> <<"H", "3", "K", "9", "a", "c">>
    [] s = "CTCF" -> <<"C", "T", "C", "F">>
    [] s = "WGBS" -> <<"W", "G", "B", "S">>
    [] s = "methyl" -> <<"m", "e", "t", "h", "y", "l">>
    [] s = "RNA" -> <<"R", "N", "A">>
    [] s = "fwd" -> <<"f", "w", "d">>
    [] s = "rev" -> <<"r", "e", "v">>
    [] s = "RPKM" -> <<"R", "P", "K", "M">>
    [] s = "DNase" -> <<"D", "N", "a", "s", "e">>
    [] s = "Hp1a" -> <<"H", "p", "1", "a">>
    [] s = "H1" -> <<"H", "1">>
    [] s = "H3K9me2" -> <<"H", "3", "K", "9", "m", "e", "2">>
    [] s = "male" -> <<"m", "a", "l", "e">>
    [] s = "snRNA" -> <<"s", "n", "R", "N", "A">>
    [] s = ".multiwig" -> <<".", "m", "u", "l", "t", "i", "w", "i", "g">>
    [] s = ".composite" -> <<".", "c", "o", "m", "p", "o", "s", "i", "t", "e">>
    [] s = ".super" -> <<".", "s", "u", "p", "e", "r">>
    [] s = ".bw" -> <<".", "b", "w">>
    [] s = ".bigwig" -> <<".", "b", "i", "g", "w", "i", "g">>
    [] s = ".bb" -> <<".", "b", "b">>
    [] s = ".bigbed" -> <<".", "b", "i", "g", "b", "e", "d">>
    [] s = ".yaml" -> <<".", "y", "a", "m", "l">>
Lower(c) ==
  CASE c = "A" -> "a"
    [] c = "B" -> "b"
    [] c = "C" -> "c"
    [] c = "D" -> "d"
    [] c = "E" -> "e"
    [] c = "F" -> "f"
    [] c = "G" -> "g"
    [] c = "H" -> "h"
    [] c = "I" -> "i"
    [] c = "J" -> "j"
    [] c = "K" -> "k"
    [] c = "L" -> "l"
    [] c = "M" -> "m"
    [] c = "N" -> "n"
    [] c = "O" -> "o"
    [] c = "P" -> "p"
    [] c = "Q" -> "q"
    [] c = "R" -> "r"
    [] c = "S" -> "s"
    [] c = "T" -> "t"
    [] c = "U" -> "u"
    [] c = "V" -> "v"
    [] c = "W" -> "w"
    [] c = "X" -> "x"
    [] c = "Y" -> "y"
    [] c = "Z" -> "z"
    [] OTHER -> c
\* str.lower() of a spelled-out string: re.IGNORECASE compares case-folded
RECURSIVE LowerSeq(_)
LowerSeq(cs) ==
  IF cs = <<>> THEN <<>> ELSE <<Lower(Head(cs))>> \o LowerSeq(Tail(cs))

\* the strings of S, each with its case-folded spelling
RECURSIVE FoldedOver(_)
FoldedOver(S) ==
  IF S = {} THEN <<>>
  ELSE LET s == CHOOSE x \in S : TRUE
       IN  (s :> LowerSeq(Chars(s))) @@ FoldedOver(S \ {s})

FoldedSpelled == FoldedOver(Spelled)

\* s spelled out and case-folded
Folded(s) == FoldedSpelled[s]

\* the literal lit occurs in cs at position i
OccursAt(lit, cs, i) ==
  /\ i >= 1
  /\ i + Len(lit) - 1 <= Len(cs)
  /\ \A j \in 1..Len(lit) : cs[i + j - 1] = lit[j]

\* re.compile(pat, re.IGNORECASE).  A pattern is written as the sequence of
\* its alternatives (a|b), each the sequence of its literals, joined by .* ;
\* compiled, each literal is spelled out and case-folded
RECURSIVE FoldAll(_)
FoldAll(segs) ==
  IF segs = <<>> THEN <<>>
  ELSE <<Folded(Head(segs))>> \o FoldAll(Tail(segs))

RECURSIVE Compile(_)
Compile(pat) ==
  IF pat = <<>> THEN <<>> ELSE <<FoldAll(Head(pat))>> \o Compile(Tail(pat))

\* the literals segs[k..] occur in cs in this order, from position from on,
\* with anything between them: the regular expression  seg1.*seg2.*...
RECURSIVE MatchSegs(_, _, _, _)
MatchSegs(segs, k, cs, from) ==
  IF k > Len(segs) THEN TRUE
  ELSE \E i \in from..(Len(cs) - Len(segs[k]) + 1) :
         /\ OccursAt(segs[k], cs, i)
         /\ MatchSegs(segs, k + 1, cs, i + Len(segs[k]))

\* the compiled pattern re matches somewhere in cs, the subject case-folded
SearchIn(re, cs) == \E a \in 1..Len(re) : MatchSegs(re[a], 1, cs, 1)

\* re.search(pat, s, re.IGNORECASE), and re.match(".*(" + pat + ")", s,
\* re.IGNORECASE) which matches the same strings
Search(pat, s) == SearchIn(Compile(pat), Folded(s))

\* re.match(".*\.(x)$", s, re.IGNORECASE) for a literal suffix
EndsWith(s, suffix) ==
  OccursAt(Folded(suffix), Folded(s), Len(Folded(s)) - Len(Folded(suffix)) + 1)

\* glob "*.yaml": fnmatch, case-sensitive, no leading dot
GlobYaml(s) ==
  LET cs  == Chars(s)
      suf == Chars(".yaml")
  IN  /\ OccursAt(suf, cs, Len(cs) - Len(suf) + 1)
      /\ cs[1] # "."

-----------------------------------------------------------------------------
(* The rule tables and the default templates *)

bigwig_colors ==
  << [pat |-> << <<"input">> >>,        color |-> "150,150,150"],
     [pat |-> << <<"H3K4me1">> >>,      color |-> "65,171,93"],
     [pat |-> << <<"H3K4me2">> >>,      color |-> "161,217,155"],
     [pat |-> << <<"H3K27ac">> >>,      color |-> "252,78,42"],
     [pat |-> << <<"H3K4me3">> >>,      color |-> "203,24,29"],
     [pat |-> << <<"H3K36me3">> >>,     color |-> "254,196,79"],
     [pat |-> << <<"H3K27me3">> >>,     color |-> "140,107,177"],
     [pat |-> << <<"H3K9me3">> >>,      color |-> "29,145,192"],
     [pat |-> << <<"H3K9ac">> >>,       color |-> "164,0,0"],
     [pat |-> << <<"CTCF">> >>,         color |-> "106,81,163"],
     [pat |-> << <<"WGBS">> >>,         color |-> "0,102,255"],
     [pat |-> << <<"methyl">> >>,       color |-> "0,102,255"],
     [pat |-> << <<"RNA", "fwd">> >>,   color |-> "0,102,0"],
     [pat |-> << <<"RNA", "rev">> >>,   color |-> "153,51,0"],
     [pat |-> << <<"RNA", "RPKM">> >>,  color |-> "71,107,107"],
     [pat |-> << <<"DNase">> >>,        color |-> "0,204,102"],
     [pat |-> << <<"Hp1a">> >>,         color |-> "0,128,255"],
     [pat |-> << <<"H1">> >>,           color |-> "255,102,255"],
     [pat |-> << <<"H3K9me2">> >>,      color |-> "51,51,255"] >>

multiwig_default ==
  [track |-> "None", type |-> "bigWig", container |-> "multiWig",
   parent |-> "None", shortLabel |-> "None", longLabel |-> "None",
   aggregate |-> "transparentOverlay", showSubtrackColorOnUi |-> "on",
   priority |-> "1", html |-> "examplePage"]

bigwig_default ==
  [track |-> "None", type |-> "bigWig", parent |-> "None",
   bigDataUrl |-> <<>>, shortLabel |-> "None", longLabel |-> "None",
   color |-> "255,0,0"]

bigwig_combined ==
  [visibility |-> "hide", maxHeightPixels |-> "500:20:8",
   viewLimits |-> "0:20", alwaysZero |-> "on", autoScale |-> "off",
   windowingFunction |-> "mean+whiskers", priority |-> "1"]

bigbed_default ==
  [track |-> "None", parent |-> "None", bigDataUrl |-> <<>>,
   shortLabel |-> "None", longLabel |-> "None", type |-> "bigBed 3 +",
   color |-> "255,0,0", visibility |-> "squish"]

bigwig_specific ==
  << [pat |-> << <<"methyl">>, <<"WGBS">> >>,
      conf |-> [viewLimits |-> "0:100", maxHeightPixels |-> "500:30:8"]],
     [pat |-> << <<"male", "H3K9me3">> >>,
      conf |-> [viewLimits |-> "0:15"]],
     [pat |-> << <<"H3K9me3">> >>,
      conf |-> [viewLimits |-> "0:8"]],
     [pat |-> << <<"H3K27me3">> >>,
      conf |-> [viewLimits |-> "0:14"]],
     [pat |-> << <<"snRNA">> >>,
      conf |-> [viewLimits |-> "0:15", maxHeightPixels |-> "500:30:8",
                transformFunc |-> "LOG"]],
     [pat |-> << <<"RNA">> >>,
      conf |-> [viewLimits |-> "0:30"]] >>

composite_default ==
  [track |-> "None", parent |-> "None", type |-> "None",
   compositeTrack |-> "on", shortLabel |-> "None", longLabel |-> "None",
   visibility |-> "hide", priority |-> "1", centerLabelsDense |-> "on",
   html |-> "examplePage"]

super_default ==
  [track |-> "None", superTrack |-> "on show", parent |-> "None",
   shortLabel |-> "None", longLabel |-> "None", priority |-> "1",
   html |-> "examplePage"]

\* the keys of the two pattern tables, compiled, in the tables' order
RECURSIVE CompileKeys(_)
CompileKeys(table) ==
  IF table = <<>> THEN <<>>
  ELSE <<Compile(Head(table).pat)>> \o CompileKeys(Tail(table))

color_patterns == CompileKeys(bigwig_colors)
specific_patterns == CompileKeys(bigwig_specific)

\* the empty dict
NoAttrs == [k \in {} |-> "None"]

\* dict.update: the keys of b win
Update(a, b) ==
  [k \in DOMAIN a \cup DOMAIN b |-> IF k \in DOMAIN b THEN b[k] ELSE a[k]]

\* dict.pop(key, None)
Pop(a, key) == [k \in DOMAIN a \ {key} |-> a[k]]

\* "_".join(["track", str(n)])
TrackIds ==
  << "track_1", "track_2", "track_3", "track_4", "track_5", "track_6",
     "track_7", "track_8", "track_9", "track_10", "track_11", "track_12",
     "track_13", "track_14", "track_15", "track_16", "track_17", "track_18",
     "track_19", "track_20", "track_21", "track_22", "track_23", "track_24",
     "track_25", "track_26", "track_27", "track_28", "track_29", "track_30" >>
TrackId(n) == TrackIds[n]

-----------------------------------------------------------------------------
(* The classifier and the config builder, as functions of their arguments *)

Last(s) == s[Len(s)]

\* line 255: a bigwig file
IsBigWig(track_file) ==
  EndsWith(track_file, ".bw") \/ EndsWith(track_file, ".bigwig")

\* line 282: a bigbed file, tried only when the file is no bigwig
IsBigBed(track_file) ==
  EndsWith(track_file, ".bb") \/ EndsWith(track_file, ".bigbed")

\* lines 179-188: generatorType from the directory's name ("None": no suffix)
GeneratorType(name) ==
  IF EndsWith(name, ".multiwig") THEN "multiwig"
  ELSE IF EndsWith(name, ".composite") THEN "composite"
  ELSE IF EndsWith(name, ".super") THEN "super"
  ELSE "None"

\* line 304 with the container's name left out of the test
ColorMatchesFileOnly(pat, filename, parent) == SearchIn(pat, filename)

\* line 304: the test of one colour pattern; filename and parent are given
\* case-folded, as re.IGNORECASE compares them
ColorMatches(pat, filename, parent) ==
  SearchIn(pat, filename) \/ SearchIn(pat, parent)

\* lines 303-307: the colour of the first pattern, from the i-th on, that
\* passes the test of line 304, else default
RECURSIVE ColorFrom(_, _, _, _)
ColorFrom(i, filename, parent, default) ==
  IF i > Len(bigwig_colors) THEN default
  ELSE IF ColorMatches(color_patterns[i], filename, parent)
       THEN bigwig_colors[i].color
       ELSE ColorFrom(i + 1, filename, parent, default)

get_bigwig_color(filename, parent, default) ==
  ColorFrom(1, Folded(filename), Folded(parent), default)

\* lines 199-203 and 274-278: the overrides of the first pattern of
\* bigwig_specific, from the i-th on, that matches name; none: the empty dict
RECURSIVE SpecificFrom(_, _)
SpecificFrom(i, name) ==
  IF i > Len(bigwig_specific) THEN NoAttrs
  ELSE IF SearchIn(specific_patterns[i], name)
       THEN bigwig_specific[i].conf
       ELSE SpecificFrom(i + 1, name)

\* the loop of lines 274-278 without its break: the last match stands
RECURSIVE SpecificBack(_, _)
SpecificBack(i, name) ==
  IF i < 1 THEN NoAttrs
  ELSE IF SearchIn(specific_patterns[i], name)
       THEN bigwig_specific[i].conf
       ELSE SpecificBack(i - 1, name)

LastSpecific(name) == SpecificBack(Len(bigwig_specific), Folded(name))

FirstSpecific(name) == SpecificFrom(1, Folded(name))

\* lines 261-264 and 284-287: the parent entry of a track
WithTrackParent(track_config, parents) ==
  IF Len(parents) - 2 > -1
    THEN Update(track_config, [parent |-> Last(parents)])
    ELSE Pop(track_config, "parent")

\* lines 266-270 and 289-293: identifier, data file, labels and colour
WithIdentity(track_config, track_file, parents, n, default) ==
  Update(track_config,
         [track      |-> TrackId(n),
          bigDataUrl |-> Tail(parents) \o <<track_file>>,
          shortLabel |-> track_file,
          longLabel  |-> track_file,
          color      |-> get_bigwig_color(track_file, Last(parents), default)])

\* lines 256-278: the config of a bigwig file, with the counter at n
BigWigConfig(track_file, type, parents, n) ==
  LET c1 == IF type # "multiwig"
              THEN Update(bigwig_default, bigwig_combined)
              ELSE bigwig_default
      c2 == WithTrackParent(c1, parents)
      c3 == WithIdentity(c2, track_file, parents, n, "255,0,0")
  IN  IF type # "multiwig" THEN Update(c3, FirstSpecific(track_file)) ELSE c3

\* lines 283-293: the config of a bigbed file, with the counter at n
BigBedConfig(track_file, type, parents, n) ==
  WithIdentity(WithTrackParent(bigbed_default, parents),
               track_file, parents, n, bigbed_default.color)

\* lines 271 and 294 with the increment left out of the bigbed branch
AdvanceBigWigOnly(track_file, n) == IF IsBigWig(track_file) THEN n + 1 ELSE n

\* lines 271 and 294: trackCounter += 1, in either branch
Advance(track_file, n) == n + 1

\* lines 255 and 282: what a file is
TrackKind(track_file) ==
  IF IsBigWig(track_file) THEN "bigwig"
  ELSE IF IsBigBed(track_file) THEN "bigbed"
  ELSE "None"

\* lines 253-296: one turn of the loop, for a file of kind kind; acc is
\* [tracks: tracks_config, keys: its keys in insertion order, counter]
WithFile(acc, f, kind, type, parents) ==
  IF kind = "None" THEN acc
  ELSE [tracks  |-> Update(acc.tracks,
                      (f :> IF kind = "bigwig"
                              THEN BigWigConfig(f, type, parents, acc.counter)
                              ELSE BigBedConfig(f, type, parents, acc.counter))),
        keys    |-> IF f \in DOMAIN acc.tracks
                      THEN acc.keys ELSE Append(acc.keys, f),
        counter |-> Advance(f, acc.counter)]

\* get_tracks_config: the loop of line 252 from the i-th file on
RECURSIVE TracksFrom(_, _, _, _, _)
TracksFrom(files, i, type, parents, acc) ==
  IF i > Len(files) THEN acc
  ELSE TracksFrom(files, i + 1, type, parents,
                  WithFile(acc, files[i], TrackKind(files[i]), type, parents))

get_tracks_config(files, type, parents, n) ==
  TracksFrom(files, 1, type, parents,
             [tracks |-> NoAttrs, keys |-> <<>>, counter |-> n])

\* lines 176-207: the container's own entry
ContainerEntry(parents) ==
  LET name == Last(parents)
      type == GeneratorType(name)
      c0 == IF type = "multiwig"
              THEN Update(multiwig_default, bigwig_combined)
            ELSE IF type = "composite" THEN composite_default
            ELSE IF type = "super" THEN super_default
            ELSE NoAttrs
      c1 == Update(c0, [track |-> name, shortLabel |-> name,
                        longLabel |-> name,
                        parent |-> IF Len(parents) >= 2
                                     THEN parents[Len(parents) - 1]
                                     ELSE Last(parents)])
      c2 == IF type = "multiwig" THEN Update(c1, FirstSpecific(name)) ELSE c1
  IN  IF Len(parents) - 2 <= 0 THEN Pop(c2, "parent") ELSE c2

\* line 217: the set of the type values of the tracks
TrackTypes(tracks) ==
  {tracks[k]["type"] : k \in {x \in DOMAIN tracks : "type" \in DOMAIN tracks[x]}}

\* lines 216-224 without the test of line 223
TypeErrorMixedOnly(type, tracks) ==
  IF type \in {"composite", "multiwig"} /\ Cardinality(TrackTypes(tracks)) > 1
    THEN "Only one tracktype allowed in composite or multiwig containers!"
    ELSE ""

\* lines 216-224: the message of the fatal exit of the type pass, "" if none
TypeError(type, tracks) ==
  IF type \notin {"composite", "multiwig"} THEN ""
  ELSE IF Cardinality(TrackTypes(tracks)) > 1
    THEN "Only one tracktype allowed in composite or multiwig containers!"
  ELSE IF type = "multiwig" /\ TrackTypes(tracks) \notin {{}, {"bigWig"}}
    THEN "Only bigWig tracks are allowed in multiwig containers!"
  ELSE ""

\* lines 218-220: multi_track_type when the type pass does not exit
MultiTrackType(tracks) ==
  IF TrackTypes(tracks) = {} THEN "bigWig"
  ELSE CHOOSE t \in TrackTypes(tracks) : TRUE

\* lines 209-226: config['tracks'] with the container's entry, the tracks,
\* and for a composite or multiwig the container's type
WithContainerType(parents, type, tracks) ==
  LET name == Last(parents)
      own  == IF type \in {"composite", "multiwig"}
                THEN Update(ContainerEntry(parents),
                            [type |-> MultiTrackType(tracks)])
                ELSE ContainerEntry(parents)
  IN  IF name \in DOMAIN tracks
        THEN IF type \in {"composite", "multiwig"}
               THEN Update(tracks, (name :>
                      Update(tracks[name], [type |-> MultiTrackType(tracks)])))
               ELSE tracks
        ELSE Update((name :> own), tracks)

\* lines 189-190: a subdirectory without a container suffix
SuffixError(parents) ==
  IF GeneratorType(Last(parents)) = "None" /\ Len(parents) > 1
    THEN "Every subdir needs to be a multiwig, composite or super container!"
    ELSE ""

\* lines 324-326 with the entry replaced by the document's, not updated
MergeReplace(tracks, configFromFile) ==
  [tr \in DOMAIN tracks |->
     IF tr \in DOMAIN configFromFile THEN configFromFile[tr] ELSE tracks[tr]]

\* lines 324-326: the override document merged into config['tracks']
MergeOverrides(tracks, configFromFile) ==
  [tr \in DOMAIN tracks |->
     IF tr \in DOMAIN configFromFile
       THEN Update(tracks[tr], configFromFile[tr])
       ELSE tracks[tr]]

\* update_config_from_file: yamls are the documents glob finds in path, in
\* the order found (the first is taken); content gives a document's mapping
update_config_from_file(tracks, yamls, content) ==
  IF yamls = <<>> THEN tracks ELSE MergeOverrides(tracks, content)

\* lines 209-236 of get_container_config, with got what get_tracks_config
\* returned: exit is the message of the fatal exit ("" when the directory is
\* built), built is config['tracks'] before line 229 and tracks after it,
\* keys its keys in insertion order
ContainerConfig(parents, type, got, yamls, content, n) ==
  IF SuffixError(parents) # ""
    THEN [exit |-> SuffixError(parents), built |-> NoAttrs,
          tracks |-> NoAttrs, keys |-> <<>>, counter |-> n]
  ELSE IF TypeError(type, got.tracks) # ""
    THEN [exit |-> TypeError(type, got.tracks), built |-> NoAttrs,
          tracks |-> NoAttrs, keys |-> <<>>, counter |-> got.counter]
  ELSE [exit |-> "",
        built |-> WithContainerType(parents, type, got.tracks),
        tracks |-> update_config_from_file(
                     WithContainerType(parents, type, got.tracks),
                     yamls, content),
        keys |-> <<Last(parents)>>
                 \o SelectSeq(got.keys, LAMBDA k : k # Last(parents)),
        counter |-> got.counter]

get_container_config(parents, files, yamls, content, n) ==
  ContainerConfig(parents, GeneratorType(Last(parents)),
                  IF SuffixError(parents) # ""
                    THEN [tracks |-> NoAttrs, keys |-> <<>>, counter |-> n]
                    ELSE get_tracks_config(files, GeneratorType(Last(parents)),
                                           parents, n),
                  yamls, content, n)

-----------------------------------------------------------------------------
(* The input: a directory tree cut out of a fixed sample file system *)

\* the most subdirectories (at any depth) of an input tree
MaxDirs == 3
\* the largest args.startIndex tried
MaxStart == 2
\* line 338 and line 351: the width of one level of indentation
IndentWidth == 5

Root == "hub"
DumpFile == "container_config.used"

\* the sample file system: each directory's files and subdirectories in the
\* order os.walk lists them
MasterTree ==
  (<<"hub">> :>
     [files |-> <<"sample.H3K4me3.bw", "notes.txt", "top.yaml">>,
      dirs  |-> <<"WGBS.composite", "mixed.Composite", "rna.MULTIWIG",
                  "bed.multiwig", "marks.super", "plain",
                  "input.composite", "empty.composite">>]) @@
  (<<"hub", "WGBS.composite">> :>
     [files |-> <<"a.bw", "cfg.yaml", "male_H3K9me3.bigwig">>,
      dirs  |-> <<"inner.composite">>]) @@
  (<<"hub", "WGBS.composite", "inner.composite">> :>
     [files |-> <<"b.bw">>, dirs |-> <<>>]) @@
  (<<"hub", "mixed.Composite">> :>
     [files |-> <<"a.bw", "peaks.bb">>, dirs |-> <<>>]) @@
  (<<"hub", "rna.MULTIWIG">> :>
     [files |-> <<"snRNA_fwd.BW", "a.bw">>, dirs |-> <<>>]) @@
  (<<"hub", "bed.multiwig">> :>
     [files |-> <<"peaks.bb">>, dirs |-> <<>>]) @@
  (<<"hub", "marks.super">> :>
     [files |-> <<"peaks.bb", "H3K27me3.bw">>,
      dirs  |-> <<"K9.composite", "deep.super", "sub">>]) @@
  (<<"hub", "marks.super", "K9.composite">> :>
     [files |-> <<"peaks.bb", "notes.txt", "more.bigBed">>, dirs |-> <<>>]) @@
  (<<"hub", "marks.super", "deep.super">> :>
     [files |-> <<>>, dirs |-> <<"low.composite">>]) @@
  (<<"hub", "marks.super", "deep.super", "low.composite">> :>
     [files |-> <<"c.bw">>, dirs |-> <<>>]) @@
  (<<"hub", "marks.super", "sub">> :>
     [files |-> <<"a.bw">>, dirs |-> <<>>]) @@
  (<<"hub", "plain">> :>
     [files |-> <<"a.bw">>, dirs |-> <<>>]) @@
  (<<"hub", "input.composite">> :>
     [files |-> <<"sample.H3K4me3.bw">>, dirs |-> <<>>]) @@
  (<<"hub", "empty.composite">> :>
     [files |-> <<"notes.txt">>, dirs |-> <<>>])

\* the mapping yaml.load gives for the override document of directory path
YamlContent(path) ==
  IF path = <<"hub">>
    THEN ("sample.H3K4me3.bw" :> [color |-> "1,2,3", track |-> "H3K4me3"]) @@
         ("hub" :> [shortLabel |-> "my hub"]) @@
         ("ghost.bw" :> [color |-> "9,9,9"])
  ELSE IF path = <<"hub", "WGBS.composite">>
    THEN ("WGBS.composite" :> [type |-> "bigBed 3 +", visibility |-> "full",
                               dragAndDrop |-> "subTracks"]) @@
         ("male_H3K9me3.bigwig" :> [viewLimits |-> "0:50"]) @@
         ("ghost.bw" :> [color |-> "9,9,9"])
  ELSE NoAttrs

Parent(p) == SubSeq(p, 1, Len(p) - 1)

\* the input trees: the root with at most MaxDirs directories of the sample
InputDirs ==
  {K \in SUBSET (DOMAIN MasterTree \ {<<Root>>}) :
     /\ Cardinality(K) <= MaxDirs
     /\ \A p \in K : Len(p) > 2 => Parent(p) \in K}

InputTree(K, yaml) ==
  [p \in K \cup {<<Root>>} |->
     [files |-> SelectSeq(MasterTree[p].files,
                          LAMBDA f : yaml \/ ~GlobYaml(f)),
      dirs  |-> SelectSeq(MasterTree[p].dirs,
                          LAMBDA d : Append(p, d) \in K)]]

\* what the output directory may hold before the first run: nothing, or a
\* symlink left there by an earlier use
PreLinks == {NoAttrs, ("a.bw" :> <<"old", "a.bw">>)}

-----------------------------------------------------------------------------
(* main: the build pass, then the write pass *)

Init ==
  /\ \E K \in InputDirs : \E yaml \in BOOLEAN :
       /\ tree = InputTree(K, yaml)
       /\ useYaml = yaml
  /\ startIndex \in 1..MaxStart
  /\ trackCounter = startIndex
  /\ pc = "build"
  /\ run = 1
  /\ exitMsg = ""
  /\ todo = << <<Root>> >>
  /\ hub = NoAttrs
  /\ built = NoAttrs
  /\ wstack = <<>>
  /\ outText = <<>>
  /\ links \in PreLinks
  /\ prevText = <<>>
  /\ prevLinks = links
  /\ call = [filename |-> "", parent |-> "", default |-> ""]
  /\ color = ""

\* glob.glob(os.path.join(path, "*.yaml"))
Yamls(files) == SelectSeq(files, GlobYaml)

\* the directory os.walk yields next, built by get_container_config
NextDir == Head(todo)
NextConfig ==
  get_container_config(NextDir, tree[NextDir].files,
                       Yamls(tree[NextDir].files), YamlContent(NextDir),
                       trackCounter)

\* lines 233-234: the dump written into the directory
WithDump(files) ==
  IF \E i \in 1..Len(files) : files[i] = DumpFile
    THEN files ELSE Append(files, DumpFile)

\* lines 144-153: one directory of the walk, built and entered into the hub
BuildDir ==
  /\ pc = "build"
  /\ todo # <<>>
  /\ \E config \in {NextConfig} :
       /\ config.exit = ""
       /\ hub' = (NextDir :> [containers |-> tree[NextDir].dirs,
                              tracks     |-> config.tracks,
                              keys       |-> config.keys]) @@ hub
       /\ built' = (NextDir :> config.built) @@ built
       /\ trackCounter' = config.counter
  /\ todo' = [i \in 1..Len(tree[NextDir].dirs) |->
                Append(NextDir, tree[NextDir].dirs[i])] \o Tail(todo)
  /\ tree' = [tree EXCEPT ![NextDir].files = WithDump(@)]
  /\ UNCHANGED << useYaml, startIndex, pc, run, exitMsg, wstack, outText,
                  links, prevText, prevLinks,
                  callVars >>

\* lines 190, 222, 224: sys.exit in get_container_config
BuildDirFatal ==
  /\ pc = "build"
  /\ todo # <<>>
  /\ \E config \in {NextConfig} :
       /\ config.exit # ""
       /\ exitMsg' = config.exit
       /\ trackCounter' = config.counter
  /\ pc' = "fatal"
  /\ UNCHANGED << tree, useYaml, startIndex, run, todo, hub, built, wstack,
                  outText, links, prevText, prevLinks,
                  callVars >>

\* the write pass entered as soon as the root has been built
RootBuilt == hub # NoAttrs

\* line 403 has returned: os.walk is exhausted
BuildComplete == todo = <<>>

WContainer(p) == [kind |-> "container", path |-> p, name |-> Last(p)]
WTrack(p, f)  == [kind |-> "track", path |-> p, name |-> f]

\* lines 405-409: trackDb.txt is opened for writing and write_hub is called
\* with hub['containers'], the root
StartWrite ==
  /\ pc = "build"
  /\ BuildComplete
  /\ pc' = "write"
  /\ outText' = <<>>
  /\ wstack' = << WContainer(<<Root>>) >>
  /\ UNCHANGED << tree, useYaml, startIndex, trackCounter, run, exitMsg,
                  todo, hub, built, links, prevText, prevLinks,
                  callVars >>

\* a block of trackDb.txt: the key/value lines of one entity, indented
Block(p, name, indent, attrs) ==
  [owner |-> p, entity |-> name, indent |-> indent, attrs |-> attrs]

\* lines 345-346: the tracks of a container, its own entry left out
ChildTracks(p) == SelectSeq(hub[p].keys, LAMBDA k : k # Last(p))

\* write_hub with the tracks of a container written before the recursion
PendingTracksFirst(p) ==
  [i \in 1..Len(ChildTracks(p)) |-> WTrack(p, ChildTracks(p)[i])]
  \o [i \in 1..Len(hub[p].containers) |->
        WContainer(Append(p, hub[p].containers[i]))]

\* what write_hub does for container p from here on: its child containers,
\* each one whole, and then its tracks
Pending(p) ==
  [i \in 1..Len(hub[p].containers) |->
     WContainer(Append(p, hub[p].containers[i]))]
  \o [i \in 1..Len(ChildTracks(p)) |-> WTrack(p, ChildTracks(p)[i])]

\* lines 334-342: the container's own block, below the root only
WriteContainer ==
  /\ pc = "write"
  /\ wstack # <<>>
  /\ Head(wstack).kind = "container"
  /\ LET p     == Head(wstack).path
         depth == Len(p) - 1
     IN  /\ outText' = IF depth > 0
                         THEN Append(outText,
                                Block(p, Last(p), (depth - 1) * IndentWidth,
                                      hub[p].tracks[Last(p)]))
                         ELSE outText
         /\ wstack' = Pending(p) \o Tail(wstack)
  /\ UNCHANGED << tree, useYaml, startIndex, trackCounter, pc, run, exitMsg,
                  todo, hub, built, links, prevText, prevLinks,
                  callVars >>

\* lines 347-352: the lines of a track, bigDataUrl cut to its last component
TrackLines(attrs) ==
  IF "bigDataUrl" \in DOMAIN attrs
    THEN Update(attrs, [bigDataUrl |-> Last(attrs.bigDataUrl)])
    ELSE attrs

\* lines 356-357 alone: os.symlink with no old link removed first
SymlinkNoRemove(ls, name, target) ==
  [ok |-> name \notin DOMAIN ls, links |-> (name :> target) @@ ls]

\* lines 354-357: an old link of this name is removed, then os.symlink, which
\* fails when the name is still taken
SymlinkInto(ls, name, target) ==
  LET kept == IF name \in DOMAIN ls THEN Pop(ls, name) ELSE ls
  IN  [ok |-> name \notin DOMAIN kept, links |-> (name :> target) @@ kept]

\* lines 345-358: one track of a container: its block and its symlink
WriteTrack ==
  /\ pc = "write"
  /\ wstack # <<>>
  /\ Head(wstack).kind = "track"
  /\ LET p     == Head(wstack).path
         track == Head(wstack).name
         attrs == hub[p].tracks[track]
         made  == SymlinkInto(links, track, <<Root>> \o attrs.bigDataUrl)
     IN  /\ outText' = Append(outText,
                         Block(p, track, (Len(p) - 1) * IndentWidth,
                               TrackLines(attrs)))
         /\ links' = IF made.ok THEN made.links ELSE links
         /\ pc' = IF made.ok THEN pc ELSE "crash"
  /\ wstack' = Tail(wstack)
  /\ UNCHANGED << tree, useYaml, startIndex, trackCounter, run, exitMsg, todo,
                  hub, built, prevText, prevLinks,
                  callVars >>

\* lines 410-415: write_hub has returned; postContent is '' by default
WriteDone ==
  /\ pc = "write"
  /\ wstack = <<>>
  /\ pc' = "done"
  /\ UNCHANGED << tree, useYaml, startIndex, trackCounter, run, exitMsg, todo,
                  hub, built, wstack, outText, links, prevText, prevLinks,
                  callVars >>

\* lines 400-403: main is run again, on the tree and the output directory as
\* the first run left them
Rerun ==
  /\ pc = "done"
  /\ run = 1
  /\ run' = 2
  /\ pc' = "build"
  /\ trackCounter' = startIndex
  /\ todo' = << <<Root>> >>
  /\ hub' = NoAttrs
  /\ built' = NoAttrs
  /\ prevText' = outText
  /\ prevLinks' = links
  /\ UNCHANGED << tree, useYaml, startIndex, exitMsg, wstack, outText, links,
                  callVars >>

Next ==
  \/ BuildDir
  \/ BuildDirFatal
  \/ StartWrite
  \/ WriteContainer
  \/ WriteTrack
  \/ WriteDone
  \/ Rerun

Spec == Init /\ [][Next]_vars

-----------------------------------------------------------------------------
(* get_bigwig_color called on its own, on every track file name and every *)
(* directory name of the sample                                           *)

SampleDirs == {Last(p) : p \in DOMAIN MasterTree}
SampleFiles ==
  UNION {{MasterTree[p].files[i] : i \in 1..Len(MasterTree[p].files)} :
           p \in DOMAIN MasterTree}
SampleTracks == {f \in SampleFiles : TrackKind(f) # "None"}

InitColor ==
  /\ call \in [filename : SampleTracks, parent : SampleDirs,
                default : {bigwig_default.color}]
  /\ color = ""
  /\ tree = InputTree({}, FALSE)
  /\ useYaml = FALSE
  /\ startIndex = 1
  /\ trackCounter = 1
  /\ pc = "build"
  /\ run = 1
  /\ exitMsg = ""
  /\ todo = << <<Root>> >>
  /\ hub = NoAttrs
  /\ built = NoAttrs
  /\ wstack = <<>>
  /\ outText = <<>>
  /\ links = NoAttrs
  /\ prevText = <<>>
  /\ prevLinks = NoAttrs

\* lines 270 and 293: the call returns
CallColor ==
  /\ color = ""
  /\ color' = get_bigwig_color(call.filename, call.parent, call.default)
  /\ UNCHANGED << call, mainVars >>

SpecColor == InitColor /\ [][CallColor]_vars

-----------------------------------------------------------------------------
(* C4: the colour of a track *)

Min(S) == CHOOSE x \in S : \A y \in S : x <= y

\* the places in bigwig_colors of the patterns that match name
Hits(name) ==
  {i \in 1..Len(bigwig_colors) : Search(bigwig_colors[i].pat, name)}

\* the colour of the first pattern among those at the places hits
FirstColor(hits, default) ==
  IF hits = {} THEN default ELSE bigwig_colors[Min(hits)].color

\* C4 as stated: the colour returned is that of the first pattern matching
\* the file name if any pattern matches it, otherwise that of the first
\* pattern matching the container name, otherwise the fallback
C4_FileNameFirst ==
  color # "" =>
    color = IF Hits(call.filename) # {}
              THEN FirstColor(Hits(call.filename), call.default)
              ELSE FirstColor(Hits(call.parent), call.default)

\* C4 amended: the colour returned is that of the first pattern, in
\* declaration order, that matches the file name or the container name,
\* and the fallback when no pattern matches either
C4_FirstPatternOfEither ==
  color # "" =>
    color = FirstColor(Hits(call.filename) \cup Hits(call.parent),
                       call.default)

\* a call has returned the colour of a pattern that matches the container
\* name and is declared before every pattern that matches the file name
C4_Witness ==
  /\ color # ""
  /\ Hits(call.filename) # {}
  /\ Hits(call.parent) # {}
  /\ Min(Hits(call.parent)) < Min(Hits(call.filename))
  /\ color = bigwig_colors[Min(Hits(call.parent))].color

-----------------------------------------------------------------------------
(* The tracks of the input tree, in the order os.walk comes to them *)

IsTrack(f) == TrackKind(f) # "None"
TrackFiles(p) == SelectSeq(tree[p].files, IsTrack)
TypeOfKind(f) == IF IsBigWig(f) THEN "bigWig" ELSE "bigBed 3 +"

\* the pairs <<directory, track file>> of the subtree at p: the files of p
\* in listing order, then each subdirectory's in turn
RECURSIVE Discovery(_), DiscoveryBelow(_, _)
Discovery(p) ==
  [i \in 1..Len(TrackFiles(p)) |-> <<p, TrackFiles(p)[i]>>]
  \o DiscoveryBelow(p, 1)

DiscoveryBelow(p, i) ==
  IF i > Len(tree[p].dirs) THEN <<>>
  ELSE Discovery(Append(p, tree[p].dirs[i])) \o DiscoveryBelow(p, i + 1)

Discovered == Discovery(<<Root>>)
BuildOver == pc \in {"write", "done"}

-----------------------------------------------------------------------------
(* C1: the identifiers *)

\* d is the discovery order: the i-th track has the identifier
\* track_(startIndex + i - 1), no two tracks share one, the hub holds no
\* other track, and the counter has advanced by the number of tracks
Numbered(d) ==
  /\ \A i \in 1..Len(d) :
       built[d[i][1]][d[i][2]].track = TrackId(startIndex + i - 1)
  /\ \A i, j \in 1..Len(d) :
       i # j => built[d[i][1]][d[i][2]].track # built[d[j][1]][d[j][2]].track
  /\ \A p \in DOMAIN built : \A e \in DOMAIN built[p] \ {Last(p)} :
       \E i \in 1..Len(d) : d[i] = <<p, e>>
  /\ trackCounter = startIndex + Len(d)

\* C1: once the build has completed, the identifiers get_tracks_config
\* assigned are track_s .. track_(s+n-1), one per track, in discovery order
C1_Identifiers == BuildOver => Numbered(Discovered)

\* a build from start index 2 has completed on a tree of at least four
\* tracks of both kinds, with a directory two levels down and a file that
\* is no track
C1_Witness ==
  /\ pc = "done"
  /\ startIndex = 2
  /\ Len(Discovered) >= 4
  /\ \E i, j \in 1..Len(Discovered) :
       IsBigWig(Discovered[i][2]) /\ IsBigBed(Discovered[j][2])
  /\ \E p \in DOMAIN tree : Len(p) = 3
  /\ \E p \in DOMAIN tree : Len(TrackFiles(p)) < Len(tree[p].files) - 1

-----------------------------------------------------------------------------
(* C2: the symlinks *)

\* C2 as stated: after the write pass every track has a symlink named by
\* its identifier that points at its own data file
C2_SymlinkPerIdentifier ==
  pc = "done" =>
    \A p \in DOMAIN built : \A f \in DOMAIN built[p] \ {Last(p)} :
      /\ built[p][f].track \in DOMAIN links
      /\ links[built[p][f].track] = Append(p, f)

-----------------------------------------------------------------------------
(* C3: one track type per composite or multiwig *)

KindsIn(p) == {TypeOfKind(TrackFiles(p)[i]) : i \in 1..Len(TrackFiles(p))}
TypedContainer(p) == GeneratorType(Last(p)) \in {"composite", "multiwig"}

\* directory p passes the test the claim describes
OneKind(p) ==
  /\ Cardinality(KindsIn(p)) <= 1
  /\ GeneratorType(Last(p)) = "multiwig" => KindsIn(p) \subseteq {"bigWig"}

\* C3: every composite or multiwig directory that has been built holds
\* tracks of one type only (bigWig in a multiwig) and got that type as its
\* own by line 226; a directory that does not is answered by a fatal exit;
\* and the build completes only when every directory has been built
C3_Homogeneous ==
  /\ \A p \in DOMAIN built :
       TypedContainer(p) =>
         /\ OneKind(p)
         /\ KindsIn(p) # {} => built[p][Last(p)].type \in KindsIn(p)
  /\ (pc = "build" /\ todo # <<>> /\ TypedContainer(NextDir)
        /\ ~OneKind(NextDir)) => NextConfig.exit # ""
  /\ BuildOver => DOMAIN built = DOMAIN tree

\* a run has completed on a tree with a composite of two bigBed tracks,
\* whose type became the bigBed type
C3_Witness ==
  /\ pc = "done"
  /\ \E p \in DOMAIN built :
       /\ GeneratorType(Last(p)) = "composite"
       /\ Len(TrackFiles(p)) >= 2
       /\ built[p][Last(p)].type = bigbed_default.type

-----------------------------------------------------------------------------
(* C5: the shape of the tree *)

\* the tree invariant of the docstring of get_container_config
TreeInvariant ==
  \A p \in DOMAIN tree :
    /\ Len(p) - 1 <= 2
    /\ TypedContainer(p) => tree[p].dirs = <<>>
    /\ GeneratorType(Last(p)) = "super" =>
         \A i \in 1..Len(tree[p].dirs) :
           GeneratorType(tree[p].dirs[i]) # "super"

\* C5 as stated: a build that completes was given a tree of depth at most
\* 2, with no directory inside a composite or multiwig and no super inside
\* a super
C5_TreeInvariantEnforced == BuildOver => TreeInvariant

-----------------------------------------------------------------------------
(* C6: nothing is written before the tree is built *)

\* C6: while the build pass runs, and when it has ended in a fatal exit,
\* trackDb.txt and the symlinks are as the run found them; the write pass
\* runs only with every directory of the tree built
C6_BuildBeforeWrite ==
  /\ pc \in {"build", "fatal"} => outText = prevText /\ links = prevLinks
  /\ pc \in {"write", "done", "crash"} =>
       todo = <<>> /\ DOMAIN hub = DOMAIN tree

\* a run has ended on mixed track types after two directories were built
\* and their dumps written, with a symlink of an earlier use in place
C6_Witness ==
  /\ pc = "fatal"
  /\ exitMsg =
       "Only one tracktype allowed in composite or multiwig containers!"
  /\ Cardinality(DOMAIN hub) >= 2
  /\ \A p \in DOMAIN hub : WithDump(tree[p].files) = tree[p].files
  /\ links # NoAttrs

-----------------------------------------------------------------------------
(* C7: the run repeated *)

\* C7: the second run on the tree and the output directory as the first
\* left them ends neither in a fatal exit nor on a symlink in its way, and
\* leaves the same trackDb.txt and the same symlinks as the first
C7_Idempotent ==
  run = 2 =>
    /\ pc \notin {"fatal", "crash"}
    /\ pc = "done" => outText = prevText /\ links = prevLinks

\* a second run has completed over the dumps and the symlinks of the first
C7_Witness ==
  /\ run = 2
  /\ pc = "done"
  /\ Cardinality(DOMAIN tree) >= 3
  /\ \A p \in DOMAIN tree : WithDump(tree[p].files) = tree[p].files
  /\ Len(outText) >= 4
  /\ Cardinality(DOMAIN links) >= 2
  /\ links = prevLinks

-----------------------------------------------------------------------------
(* C8: the override documents *)

\* the override document of directory p, the empty mapping when it has none
Document(p) ==
  IF Yamls(tree[p].files) # <<>> THEN YamlContent(p) ELSE NoAttrs

\* after is before with the document's values on top: for an entity the
\* document names, its keys take the document's values and every other key
\* keeps its own; the other entities are as they were; no entity is added
Overridden(after, before, doc) ==
  /\ DOMAIN after = DOMAIN before
  /\ \A e \in DOMAIN before :
       IF e \in DOMAIN doc
         THEN /\ DOMAIN after[e] = DOMAIN before[e] \cup DOMAIN doc[e]
              /\ \A k \in DOMAIN doc[e] : after[e][k] = doc[e][k]
              /\ \A k \in DOMAIN before[e] \ DOMAIN doc[e] :
                   after[e][k] = before[e][k]
         ELSE after[e] = before[e]

\* C8: the config of every directory entered into the hub is what was built
\* before line 229 with the directory's override document on top
C8_OverridesWin ==
  \A p \in DOMAIN hub : Overridden(hub[p].tracks, built[p], Document(p))

\* documents have replaced an identifier of the counter, a colour of the
\* colour table, a type of the type pass, a visibility of a template and a
\* view limit of a pattern, and have named a file that is not there
C8_Witness ==
  /\ {<<Root>>, <<Root, "WGBS.composite">>} \subseteq DOMAIN hub
  /\ built[<<Root>>]["sample.H3K4me3.bw"].track = TrackId(startIndex)
  /\ hub[<<Root>>].tracks["sample.H3K4me3.bw"].track = "H3K4me3"
  /\ hub[<<Root>>].tracks["sample.H3K4me3.bw"].color = "1,2,3"
  /\ built[<<Root, "WGBS.composite">>]["WGBS.composite"].type = "bigWig"
  /\ hub[<<Root, "WGBS.composite">>].tracks["WGBS.composite"].type
       = "bigBed 3 +"
  /\ hub[<<Root, "WGBS.composite">>].tracks["WGBS.composite"].visibility
       = "full"
  /\ built[<<Root, "WGBS.composite">>]["male_H3K9me3.bigwig"].viewLimits
       = "0:15"
  /\ hub[<<Root, "WGBS.composite">>].tracks["male_H3K9me3.bigwig"].viewLimits
       = "0:50"
  /\ "ghost.bw" \in DOMAIN Document(<<Root>>)
  /\ "ghost.bw" \notin DOMAIN hub[<<Root>>].tracks

-----------------------------------------------------------------------------
(* C9: the order of the blocks of trackDb.txt *)

\* directory q is p or lies below it
IsUnder(q, p) == Len(q) >= Len(p) /\ SubSeq(q, 1, Len(p)) = p

\* block b is a container's own block; otherwise it is a track's
OwnBlock(b) == b.entity = Last(b.owner)

\* the entities of the hub that are to be written: every container below
\* the root, and every track
Entities ==
  {<<p, Last(p)>> : p \in DOMAIN hub \ {<<Root>>}}
  \cup UNION {{<<p, f>> : f \in DOMAIN hub[p].tracks \ {Last(p)}} :
                p \in DOMAIN hub}

Ordered(doc) ==
  \* one block per entity, and none for the root itself
  /\ {<<doc[i].owner, doc[i].entity>> : i \in 1..Len(doc)} = Entities
  /\ \A i, j \in 1..Len(doc) :
       (doc[i].owner = doc[j].owner /\ doc[i].entity = doc[j].entity) => i = j
  \* a container's own entry is written as a container, not as a track
  /\ \A i \in 1..Len(doc) :
       OwnBlock(doc[i]) =>
         /\ doc[i].indent = (Len(doc[i].owner) - 2) * IndentWidth
         /\ doc[i].attrs = hub[doc[i].owner].tracks[doc[i].entity]
  \* a container's own block comes before every other block of its subtree
  /\ \A i, j \in 1..Len(doc) :
       (OwnBlock(doc[i]) /\ i # j /\ IsUnder(doc[j].owner, doc[i].owner))
         => i < j
  \* the blocks of the containers below a container come before its tracks
  /\ \A i, j \in 1..Len(doc) :
       (~OwnBlock(doc[i]) /\ Len(doc[j].owner) > Len(doc[i].owner)
          /\ IsUnder(doc[j].owner, doc[i].owner))
         => j < i
  \* the blocks of a child container are written together
  /\ \A i, j, k \in 1..Len(doc) :
       (i < j /\ j < k /\ Len(doc[i].owner) > 1
          /\ IsUnder(doc[k].owner, doc[i].owner))
         => IsUnder(doc[j].owner, doc[i].owner)
  \* a parent attribute names a container written before
  /\ \A i \in 1..Len(doc) :
       "parent" \in DOMAIN doc[i].attrs =>
         \E j \in 1..(i - 1) :
           /\ OwnBlock(doc[j])
           /\ doc[j].entity = doc[i].attrs.parent
           /\ IsUnder(doc[i].owner, doc[j].owner)

\* C9: in the document written, every container's own block comes first,
\* then the whole of each of its child containers, then its tracks; the
\* root has no block and its tracks come last
C9_WriteOrder == pc = "done" => Ordered(outText)

\* a document has been written for a super container that holds a track
\* of its own and a composite with tracks, under a root with a track
C9_Witness ==
  /\ pc = "done"
  /\ \E p \in DOMAIN hub :
       /\ Len(p) = 3
       /\ DOMAIN hub[p].tracks # {Last(p)}
       /\ DOMAIN hub[Parent(p)].tracks # {Last(Parent(p))}
  /\ DOMAIN hub[<<Root>>].tracks # {Root}

-----------------------------------------------------------------------------
(* C10: the layers of a track's config *)

\* the keys set after the layers: identifier, data file, labels, colour
\* and parent
Identity ==
  {"track", "bigDataUrl", "shortLabel", "longLabel", "color", "parent"}

\* the overrides of the first pattern of bigwig_specific that matches name
Tuning(name) ==
  LET hits == {i \in 1..Len(bigwig_specific) :
                 Search(bigwig_specific[i].pat, name)}
  IN  IF hits = {} THEN NoAttrs ELSE bigwig_specific[Min(hits)].conf

\* attrs is the map expected, but for the keys of Identity
SameLayers(attrs, expected) ==
  /\ DOMAIN attrs \ Identity = DOMAIN expected \ Identity
  /\ \A k \in DOMAIN expected \ Identity : attrs[k] = expected[k]

Template(f) == IF IsBigWig(f) THEN bigwig_default ELSE bigbed_default

\* a multiwig's own entry: its template, the combined-view defaults, and
\* the overrides of the first pattern that matches the container's name
MultiwigLayered(p) ==
  GeneratorType(Last(p)) = "multiwig" =>
    SameLayers(built[p][Last(p)],
               Update(Update(multiwig_default, bigwig_combined),
                      Tuning(Last(p))))

\* C10 as stated: a track of either kind outside a multiwig is its template,
\* the combined-view defaults and the overrides of the first pattern that
\* matches its name; inside a multiwig it is its template alone, and the
\* overrides go to the container
C10_EitherKindLayered ==
  \A p \in DOMAIN built :
    /\ MultiwigLayered(p)
    /\ \A f \in DOMAIN built[p] \ {Last(p)} :
         IF GeneratorType(Last(p)) # "multiwig"
           THEN SameLayers(built[p][f],
                           Update(Update(Template(f), bigwig_combined),
                                  Tuning(f)))
           ELSE SameLayers(built[p][f], Template(f))

\* C10 amended: that holds of the BigWig tracks; a BigBed track is the
\* bigbed template alone wherever it is, with neither the combined-view
\* defaults nor an override of a pattern
C10_BigWigLayered ==
  \A p \in DOMAIN built :
    /\ MultiwigLayered(p)
    /\ \A f \in DOMAIN built[p] \ {Last(p)} :
         IF GeneratorType(Last(p)) # "multiwig" /\ IsBigWig(f)
           THEN SameLayers(built[p][f],
                           Update(Update(bigwig_default, bigwig_combined),
                                  Tuning(f)))
           ELSE SameLayers(built[p][f], Template(f))

\* a hub has been built with a BigWig track that a pattern tunes and a
\* BigBed track outside a multiwig, and with a multiwig that a pattern
\* tunes and that holds a track whose name a pattern matches
C10_Witness ==
  /\ BuildOver
  /\ \E p \in DOMAIN built : \E f \in DOMAIN built[p] \ {Last(p)} :
       /\ GeneratorType(Last(p)) # "multiwig"
       /\ IsBigWig(f)
       /\ Tuning(f) # NoAttrs
  /\ \E p \in DOMAIN built : \E f \in DOMAIN built[p] \ {Last(p)} :
       GeneratorType(Last(p)) # "multiwig" /\ IsBigBed(f)
  /\ \E p \in DOMAIN built : \E f \in DOMAIN built[p] \ {Last(p)} :
       /\ GeneratorType(Last(p)) = "multiwig"
       /\ Tuning(Last(p)) # NoAttrs
       /\ Tuning(f) # NoAttrs

=============================================================================
